---- MODULE Spec2Model ----
(***************************************************************************)
(* Model of rope/base/taskhandle.py: TaskHandle, JobSet and the observer   *)
(* notification protocol.                                                  *)
(*                                                                         *)
(* A method of the program is an operator from a handle record to the      *)
(* handle record after the call; an action applies one public method to    *)
(* the current state, callbacks included.  Python's None is the empty      *)
(* tuple and a present value v is <<v>>.  A raised exception is the field  *)
(* `raised` of the handle record: the statements after a raise are         *)
(* skipped.  `log`, `passes` and `op` record the last call (the observers  *)
(* it invoked, pass by pass, and how it returned); `growth` counts the     *)
(* calls that grew the state, which MaxGrowth bounds.                      *)
(*                                                                         *)
(* NullTaskHandle and NullJobSet keep no state: SpecNull runs their        *)
(* methods, with `null_jobsets` the number of NullJobSet objects           *)
(* create_jobset has returned and `offered` the observers the caller has   *)
(* passed to add_observer.                                                 *)
(***************************************************************************)
EXTENDS Integers, Sequences, FiniteSets, TLC

VARIABLES interrupts, stopped, job_sets, observers, log, passes, op, growth,
          null_jobsets, offered

vars == <<interrupts, stopped, job_sets, observers, log, passes, op, growth,
          null_jobsets, offered>>

-----------------------------------------------------------------------------
(* Bounds of the model *)

MaxJobSets == 2
\* add_observer calls made by the caller
MaxRegistered == 2
\* length of handle.observers up to which an "adder" callback registers one more
MaxObservers == 3
MaxDone == 2
MaxCount == 2
\* calls of a run that grow the state (see GrowingOps)
MaxGrowth == 4

-----------------------------------------------------------------------------
(* Values *)

None == <<>>
Some(v) == <<v>>

NoError == "none"
InterruptedTaskError == "InterruptedTaskError"
TypeError == "TypeError"

\* The values a caller passes to create_jobset(count=...) and started_job(name)
CreateCounts == {None, Some(-1), Some(1)}
JobNames == {"a"}
DefaultJobSetName == "JobSet"

\* The callbacks a caller registers:
\*   "log"     reads the handle and returns
\*   "adder"   registers one more "log" observer while there is room
\*   "stopper" calls handle.stop() unless the handle is already stopped
ObserverKinds == {"log", "adder", "stopper"}

min(a, b) == IF a <= b THEN a ELSE b

-----------------------------------------------------------------------------
(* TaskHandle *)

\* The handle as the methods see it, at the start of a public call
Handle ==
    [interrupts |-> interrupts, stopped |-> stopped, job_sets |-> job_sets,
     observers |-> observers, log |-> <<>>, passes |-> <<>>,
     raised |-> NoError]

JobSet(name, count) ==
    [name |-> name, count |-> count, done |-> 0, job_name |-> None]

is_stopped(h) == h.stopped

add_observer(h, observer) == [h EXCEPT !.observers = Append(@, observer)]

\* current_jobset that returns the first job set (self.job_sets[0])
current_jobset_first(h) ==
    IF h.job_sets # <<>> THEN Some(h.job_sets[1]) ELSE None

current_jobset(h) ==
    IF h.job_sets # <<>> THEN Some(h.job_sets[Len(h.job_sets)]) ELSE None

get_jobsets(h) == h.job_sets

RECURSIVE stop(_)
RECURSIVE _inform_observers(_)
RECURSIVE IterateObservers(_, _, _, _)
RECURSIVE CallObserver(_, _, _, _)

\* observer(): the body of the callback registered as `kind`; every call is
\* recorded in the log with what the callback can read from the handle
CallObserver(h, kind, i, p) ==
    LET entered == [h EXCEPT !.log = Append(@, [pass |-> p, obs |-> i,
                                                stopped |-> h.stopped,
                                                job_sets |-> h.job_sets])]
    IN  CASE kind = "adder" ->
                IF Len(entered.observers) < MaxObservers
                THEN add_observer(entered, "log")
                ELSE entered
          [] kind = "stopper" ->
                IF ~is_stopped(entered) THEN stop(entered) ELSE entered
          [] OTHER -> entered

RECURSIVE IterateLive(_, _, _)
\* for observer in self.observers: observer()   (no snapshot)
IterateLive(h, i, p) ==
    IF i > Len(h.observers)
    THEN h
    ELSE IterateLive(CallObserver(h, h.observers[i], i, p), i + 1, p)

\* for observer in <snapshot>: observer()
IterateObservers(h, snapshot, i, p) ==
    IF i > Len(snapshot)
    THEN h
    ELSE IterateObservers(CallObserver(h, snapshot[i], i, p), snapshot, i + 1, p)

\* _inform_observers without list(...): the loop reads the live list
inform_observers_live(h) ==
    IterateLive([h EXCEPT !.passes = Append(@, Len(h.observers))],
                1, Len(h.passes) + 1)

_inform_observers(h) ==
    LET snapshot == h.observers
        p == Len(h.passes) + 1
    IN  IterateObservers([h EXCEPT !.passes = Append(@, Len(snapshot))],
                         snapshot, 1, p)

\* stop that informs the observers but forgets to set the flag
stop_noflag(h) ==
    IF h.interrupts THEN _inform_observers(h) ELSE h

\* stop that ignores `interrupts`
stop_unconditional(h) == _inform_observers([h EXCEPT !.stopped = TRUE])

\* stop that also drops the name of the job in progress in every job set
stop_clears_job_name(h) ==
    IF h.interrupts
    THEN _inform_observers(
             [h EXCEPT !.stopped = TRUE,
                       !.job_sets = [j \in 1..Len(h.job_sets) |->
                                        [h.job_sets[j] EXCEPT !.job_name = None]]])
    ELSE h

stop(h) ==
    IF h.interrupts
    THEN _inform_observers([h EXCEPT !.stopped = TRUE])
    ELSE h

\* create_jobset that polls the handle first, as started_job does
create_jobset_checked(h, name, count) ==
    IF is_stopped(h)
    THEN [h EXCEPT !.raised = InterruptedTaskError]
    ELSE _inform_observers([h EXCEPT !.job_sets = Append(@, JobSet(name, count))])

\* create_jobset that does not inform the observers
create_jobset_silent(h, name, count) ==
    [h EXCEPT !.job_sets = Append(@, JobSet(name, count))]

create_jobset(h, name, count) ==
    _inform_observers([h EXCEPT !.job_sets = Append(@, JobSet(name, count))])

-----------------------------------------------------------------------------
(* JobSet; j is the position of the job set in handle.job_sets *)

check_status(h, j) ==
    IF is_stopped(h) THEN [h EXCEPT !.raised = InterruptedTaskError] ELSE h

\* started_job without the check_status() call
started_job_unchecked(h, j, name) ==
    _inform_observers([h EXCEPT !.job_sets[j].job_name = Some(name)])

\* started_job that counts the job as done when it starts
started_job_counts(h, j, name) ==
    LET checked == check_status(h, j)
    IN  IF checked.raised # NoError
        THEN checked
        ELSE _inform_observers([checked EXCEPT !.job_sets[j].job_name = Some(name),
                                               !.job_sets[j].done = @ + 1])

started_job(h, j, name) ==
    LET checked == check_status(h, j)
    IN  IF checked.raised # NoError
        THEN checked
        ELSE _inform_observers([checked EXCEPT !.job_sets[j].job_name = Some(name)])

\* finished_job that counts the job before it calls check_status()
finished_job_late_check(h, j) ==
    LET counted == [h EXCEPT !.job_sets[j].done = @ + 1]
        checked == check_status(counted, j)
    IN  IF checked.raised # NoError
        THEN checked
        ELSE [_inform_observers(checked) EXCEPT !.job_sets[j].job_name = None]

\* finished_job that clears job_name before it informs the observers
finished_job_clear_first(h, j) ==
    LET checked == check_status(h, j)
    IN  IF checked.raised # NoError
        THEN checked
        ELSE _inform_observers([checked EXCEPT !.job_sets[j].done = @ + 1,
                                               !.job_sets[j].job_name = None])

\* finished_job that calls check_status() again after informing the observers
finished_job_recheck(h, j) ==
    LET checked == check_status(h, j)
    IN  IF checked.raised # NoError
        THEN checked
        ELSE LET informed ==
                     _inform_observers([checked EXCEPT !.job_sets[j].done = @ + 1])
                 rechecked == check_status(informed, j)
             IN  IF rechecked.raised # NoError
                 THEN rechecked
                 ELSE [rechecked EXCEPT !.job_sets[j].job_name = None]

finished_job(h, j) ==
    LET checked == check_status(h, j)
    IN  IF checked.raised # NoError
        THEN checked
        ELSE LET informed ==
                     _inform_observers([checked EXCEPT !.job_sets[j].done = @ + 1])
             IN  [informed EXCEPT !.job_sets[j].job_name = None]

\* get_percent_done without min(percent, 100)
get_percent_done_unclamped(js) ==
    IF js.count # None /\ js.count[1] > 0
    THEN Some((js.done * 100) \div js.count[1])
    ELSE None

\* get_percent_done that divides before it multiplies
get_percent_done_divide_first(js) ==
    IF js.count # None /\ js.count[1] > 0
    THEN Some(min((js.done \div js.count[1]) * 100, 100))
    ELSE None

get_percent_done(js) ==
    IF js.count # None /\ js.count[1] > 0
    THEN LET percent == (js.done * 100) \div js.count[1]
         IN  Some(min(percent, 100))
    ELSE None

\* increment that polls the handle first, as started_job does
increment_checked(h, j) ==
    LET checked == check_status(h, j)
    IN  IF checked.raised # NoError
        THEN checked
        ELSE IF checked.job_sets[j].count = None
             THEN [checked EXCEPT !.raised = TypeError]
             ELSE [checked EXCEPT !.job_sets[j].count = Some(@[1] + 1)]

\* increment that bumps done along with count
increment_counts_done(h, j) ==
    IF h.job_sets[j].count = None
    THEN [h EXCEPT !.raised = TypeError]
    ELSE [h EXCEPT !.job_sets[j].count = Some(@[1] + 1),
                   !.job_sets[j].done = @ + 1]

\* self.count += 1 raises TypeError when count is None
increment(h, j) ==
    IF h.job_sets[j].count = None
    THEN [h EXCEPT !.raised = TypeError]
    ELSE [h EXCEPT !.job_sets[j].count = Some(@[1] + 1)]

-----------------------------------------------------------------------------
(* The state machine: one action per public call *)

\* The calls that add to the state when they return normally; `growth` counts them
GrowingOps == {"add_observer", "create_jobset", "finished_job", "increment"}

Call(name, j, arg) == [name |-> name, js |-> j, arg |-> arg]

\* The state after a call that returned the handle record h
Becomes(h, call, result) ==
    /\ stopped' = h.stopped
    /\ job_sets' = h.job_sets
    /\ observers' = h.observers
    /\ log' = h.log
    /\ passes' = h.passes
    /\ op' = [name |-> call.name, js |-> call.js, arg |-> call.arg,
              raised |-> h.raised, result |-> result]
    /\ growth' = IF h.raised = NoError /\ call.name \in GrowingOps
                 THEN growth + 1
                 ELSE growth
    /\ UNCHANGED <<interrupts, null_jobsets, offered>>

Init ==
    /\ interrupts \in BOOLEAN
    /\ stopped = FALSE
    /\ job_sets = <<>>
    /\ observers = <<>>
    /\ log = <<>>
    /\ passes = <<>>
    /\ growth = 0
    /\ null_jobsets = 0
    /\ offered = <<>>
    /\ op = [name |-> "__init__", js |-> 0, arg |-> None,
             raised |-> NoError, result |-> None]

Stop == Becomes(stop(Handle), Call("stop", 0, None), None)

AddObserver ==
    \E kind \in ObserverKinds :
        /\ Len(observers) < MaxRegistered
        /\ growth < MaxGrowth
        /\ Becomes(add_observer(Handle, kind), Call("add_observer", 0, Some(kind)), None)

CreateJobset ==
    \E count \in CreateCounts :
        /\ Len(job_sets) < MaxJobSets
        /\ growth < MaxGrowth
        /\ Becomes(create_jobset(Handle, DefaultJobSetName, count),
                   Call("create_jobset", 0, count),
                   Some(Len(job_sets) + 1))

StartedJob ==
    \E j \in 1..Len(job_sets), name \in JobNames :
        Becomes(started_job(Handle, j, name), Call("started_job", j, Some(name)), None)

FinishedJob ==
    \E j \in 1..Len(job_sets) :
        /\ IF stopped
           THEN TRUE
           ELSE job_sets[j].done < MaxDone /\ growth < MaxGrowth
        /\ Becomes(finished_job(Handle, j), Call("finished_job", j, None), None)

CheckStatus ==
    \E j \in 1..Len(job_sets) :
        Becomes(check_status(Handle, j), Call("check_status", j, None), None)

GetPercentDone ==
    \E j \in 1..Len(job_sets) :
        Becomes(Handle, Call("get_percent_done", j, None),
                Some(get_percent_done(job_sets[j])))

CurrentJobset ==
    Becomes(Handle, Call("current_jobset", 0, None), Some(current_jobset(Handle)))

GetJobsets ==
    Becomes(Handle, Call("get_jobsets", 0, None), Some(get_jobsets(Handle)))

Increment ==
    \E j \in 1..Len(job_sets) :
        /\ IF job_sets[j].count = None
           THEN TRUE
           ELSE job_sets[j].count[1] < MaxCount /\ growth < MaxGrowth
        /\ Becomes(increment(Handle, j), Call("increment", j, None), None)

Next ==
    \/ Stop
    \/ AddObserver
    \/ CreateJobset
    \/ StartedJob
    \/ FinishedJob
    \/ CheckStatus
    \/ GetPercentDone
    \/ Increment
    \/ CurrentJobset
    \/ GetJobsets

Spec == Init /\ [][Next]_vars

-----------------------------------------------------------------------------
(* NullTaskHandle and NullJobSet *)

\* The null handle as its methods see it: it has no attributes; the record
\* carries the NullJobSet objects made so far, the observer calls and the
\* exception of the running call
NullHandle == [jobsets |-> null_jobsets, log |-> <<>>, raised |-> NoError]

NullTaskHandle_is_stopped(n) == FALSE

NullTaskHandle_stop(n) == n

\* return NullJobSet()
NullTaskHandle_create_jobset(n) == [n EXCEPT !.jobsets = @ + 1]

NullTaskHandle_get_jobsets(n) == <<>>

NullTaskHandle_add_observer(n, observer) == n

NullTaskHandle_current_jobset(n) == None

NullJobSet_started_job(n, j, name) == n

NullJobSet_finished_job(n, j) == n

NullJobSet_check_status(n, j) == n

\* a get_percent_done that reports 0 for the null job set
NullJobSet_get_percent_done_zero(n, j) == Some(0)

NullJobSet_get_percent_done(n, j) == None

NullJobSet_increment(n, j) == n

\* The state after a call on the null handle or a null job set
NullBecomes(n, call, result) ==
    /\ null_jobsets' = n.jobsets
    /\ log' = n.log
    /\ op' = [name |-> call.name, js |-> call.js, arg |-> call.arg,
              raised |-> n.raised, result |-> result]
    /\ offered' = IF call.name = "add_observer"
                  THEN Append(offered, call.arg[1])
                  ELSE offered
    /\ UNCHANGED <<interrupts, stopped, job_sets, observers, passes, growth>>

\* NullTaskHandle() has no `interrupts`; the TaskHandle variables stay unused
InitNull ==
    /\ Init
    /\ interrupts = FALSE

NullStop == NullBecomes(NullTaskHandle_stop(NullHandle), Call("stop", 0, None), None)

NullIsStopped ==
    NullBecomes(NullHandle, Call("is_stopped", 0, None),
                Some(NullTaskHandle_is_stopped(NullHandle)))

NullCreateJobset ==
    \E count \in CreateCounts :
        /\ null_jobsets < MaxJobSets
        /\ NullBecomes(NullTaskHandle_create_jobset(NullHandle),
                       Call("create_jobset", 0, count), Some("NullJobSet"))

NullGetJobsets ==
    NullBecomes(NullHandle, Call("get_jobsets", 0, None),
                Some(NullTaskHandle_get_jobsets(NullHandle)))

NullAddObserver ==
    \E kind \in ObserverKinds :
        /\ Len(offered) < MaxRegistered
        /\ NullBecomes(NullTaskHandle_add_observer(NullHandle, kind),
                       Call("add_observer", 0, Some(kind)), None)

NullCurrentJobset ==
    NullBecomes(NullHandle, Call("current_jobset", 0, None),
                Some(NullTaskHandle_current_jobset(NullHandle)))

NullStartedJob ==
    \E j \in 1..null_jobsets, name \in JobNames :
        NullBecomes(NullJobSet_started_job(NullHandle, j, name),
                    Call("started_job", j, Some(name)), None)

NullFinishedJob ==
    \E j \in 1..null_jobsets :
        NullBecomes(NullJobSet_finished_job(NullHandle, j),
                    Call("finished_job", j, None), None)

NullCheckStatus ==
    \E j \in 1..null_jobsets :
        NullBecomes(NullJobSet_check_status(NullHandle, j),
                    Call("check_status", j, None), None)

NullGetPercentDone ==
    \E j \in 1..null_jobsets :
        NullBecomes(NullHandle, Call("get_percent_done", j, None),
                    Some(NullJobSet_get_percent_done(NullHandle, j)))

NullIncrement ==
    \E j \in 1..null_jobsets :
        NullBecomes(NullJobSet_increment(NullHandle, j),
                    Call("increment", j, None), None)

NextNull ==
    \/ NullStop
    \/ NullIsStopped
    \/ NullCreateJobset
    \/ NullGetJobsets
    \/ NullAddObserver
    \/ NullCurrentJobset
    \/ NullStartedJob
    \/ NullFinishedJob
    \/ NullCheckStatus
    \/ NullGetPercentDone
    \/ NullIncrement

SpecNull == InitNull /\ [][NextNull]_vars

-----------------------------------------------------------------------------
TypeOK ==
    /\ interrupts \in BOOLEAN
    /\ stopped \in BOOLEAN
    /\ Len(job_sets) <= MaxJobSets
    /\ Len(observers) <= MaxObservers
    /\ \A j \in 1..Len(job_sets) : job_sets[j].done \in 0..MaxDone
    /\ growth \in 0..MaxGrowth
    /\ null_jobsets \in 0..MaxJobSets
    /\ Len(offered) <= MaxRegistered

-----------------------------------------------------------------------------
(* Vocabulary of the properties *)

\* The calls that poll the handle, and the calls that end in _inform_observers
PollingOps == {"started_job", "finished_job", "check_status"}
NotifyingOps == {"stop", "create_jobset", "started_job", "finished_job"}

Upto(n) == [k \in 1..n |-> k]

\* The observers invoked by pass p of the last call, in the order of invocation
PassObs(l, p) ==
    LET entries == SelectSeq(l, LAMBDA e : e.pass = p)
    IN  [k \in 1..Len(entries) |-> entries[k].obs]

\* r is min(floor(done * 100 / count), 100), or none for an absent or
\* non-positive count; stated without integer division
IsPercentOf(r, done, count) ==
    IF count = None
    THEN r = None
    ELSE IF count[1] <= 0
         THEN r = None
         ELSE /\ r # None
              /\ r[1] \in 0..100
              /\ \/ /\ r[1] < 100
                    /\ r[1] * count[1] <= done * 100
                    /\ done * 100 < (r[1] + 1) * count[1]
                 \/ /\ r[1] = 100
                    /\ done * 100 >= 100 * count[1]

PercentValue(js) == get_percent_done(js)[1]

-----------------------------------------------------------------------------
(* C1 *)

\* C1: on a handle constructed with interrupts=True, stop() sets the stopped
\* flag, the flag once set is never cleared by any operation, and every
\* started_job, finished_job and check_status call made while it is set, on any
\* job set of the handle, raises InterruptedTaskError.
C1_StopIsPermanent ==
    [][/\ (interrupts /\ op'.name = "stop") => stopped'
       /\ stopped => stopped'
       /\ (stopped /\ op'.name \in PollingOps) => op'.raised = InterruptedTaskError
      ]_vars

\* A finished_job on the last of two job sets raised after the handle was stopped
C1_Witness ==
    /\ interrupts
    /\ stopped
    /\ Len(job_sets) = 2
    /\ op.name = "finished_job"
    /\ op.js = 2
    /\ op.raised = InterruptedTaskError

(* C2 *)

\* C2: stopped implies interrupts in every reachable state; on a handle
\* constructed with interrupts=False no call raises InterruptedTaskError and no
\* observer ever sees the handle stopped, whatever stop() calls were made.
C2_StoppedOnlyIfInterrupts ==
    /\ stopped => interrupts
    /\ ~interrupts =>
          /\ op.raised # InterruptedTaskError
          /\ \A k \in 1..Len(log) : ~log[k].stopped

\* On a handle with interrupts=False a finished_job returned normally although
\* one of its observers called handle.stop() during the call
C2_Witness ==
    /\ ~interrupts
    /\ ~stopped
    /\ op.name = "finished_job"
    /\ op.raised = NoError
    /\ \E k \in 1..Len(log) : observers[log[k].obs] = "stopper"

(* C3 *)

\* C3: a check_status, started_job or finished_job call raises
\* InterruptedTaskError if and only if the handle's stopped flag is set when
\* the call is made, and raises nothing else.
C3_RaisesIffStopped ==
    [][op'.name \in PollingOps =>
          /\ op'.raised = InterruptedTaskError <=> stopped
          /\ op'.raised \in {NoError, InterruptedTaskError}
      ]_vars

\* check_status raised on a stopped handle
C3_Witness ==
    /\ stopped
    /\ op.name = "check_status"
    /\ op.raised = InterruptedTaskError

(* C4 *)

\* C4: a started_job or finished_job call that raises InterruptedTaskError
\* changes neither any job set (done, count, job_name) nor the handle's
\* job_sets, stopped flag and observers, and invokes no observer.
C4_RaiseLeavesStateUnchanged ==
    [][(op'.name \in {"started_job", "finished_job"}
            /\ op'.raised = InterruptedTaskError) =>
          /\ job_sets' = job_sets
          /\ stopped' = stopped
          /\ observers' = observers
          /\ log' = <<>>
          /\ passes' = <<>>
      ]_vars

\* stop() came between started_job and its finished_job: the finished_job
\* raised on a job set whose job is still named and whose done is still 0
C4_Witness ==
    /\ op.name = "finished_job"
    /\ op.raised = InterruptedTaskError
    /\ job_sets[op.js].job_name # None
    /\ job_sets[op.js].done = 0

(* C5 *)

\* The calls of the step that reach their _inform_observers() statement
Notifies ==
    \/ op'.name = "create_jobset"
    \/ op'.name = "stop" /\ interrupts
    \/ op'.name \in {"started_job", "finished_job"} /\ op'.raised = NoError

\* C5 as stated: every stop, create_jobset, started_job and finished_job call
\* invokes every observer registered at the time of the call exactly once, in
\* registration order.
C5_EveryCallNotifies ==
    [][op'.name \in NotifyingOps => PassObs(log', 1) = Upto(Len(observers))]_vars

\* C5 (amended): every create_jobset call, every stop call on a handle with
\* interrupts=True and every started_job and finished_job call that does not
\* raise runs one notification pass of its own that invokes every observer
\* registered at the time of the call exactly once, in registration order;
\* stop on a handle with interrupts=False and a started_job or finished_job
\* that raises invoke no observer.
C5_CompletedCallNotifies ==
    [][op'.name \in NotifyingOps =>
          IF Notifies
          THEN /\ passes' # <<>>
               /\ PassObs(log', 1) = Upto(Len(observers))
          ELSE log' = <<>> /\ passes' = <<>>
      ]_vars

\* A started_job invoked the two registered observers in order, in one pass
C5_Witness ==
    /\ op.name = "started_job"
    /\ op.raised = NoError
    /\ Len(observers) = 2
    /\ Len(passes) = 1
    /\ PassObs(log, 1) = <<1, 2>>

(* C6 *)

\* C6: every notification pass invokes exactly the observers that were
\* registered when it began, each once and in order, also when an observer
\* registers a new observer during the pass (the pass ends without invoking the
\* new one); the next call that notifies invokes the observers added so far,
\* the new one included.
C6_SnapshotPass ==
    /\ [](\A p \in 1..Len(passes) :
              /\ PassObs(log, p) = Upto(passes[p])
              /\ passes[p] <= Len(observers))
    /\ [][(Notifies /\ observers # <<>>) =>
              \E k \in 1..Len(log') :
                  log'[k].pass = 1 /\ log'[k].obs = Len(observers)
         ]_vars

\* The first of two observers registered a third during the pass; the pass
\* went on to the second and stopped there
C6_Witness ==
    /\ Len(passes) = 1
    /\ passes[1] = 2
    /\ observers[1] = "adder"
    /\ Len(observers) = 3
    /\ PassObs(log, 1) = <<1, 2>>

(* C7 *)

\* C7: for a job set with a count > 0, get_percent_done() is an integer in
\* 0..100, is 100 whenever done >= count, and does not decrease in a step that
\* leaves count as it is.
C7_PercentBounded ==
    /\ [](\A j \in 1..Len(job_sets) :
              (job_sets[j].count # None /\ job_sets[j].count[1] > 0) =>
                  /\ get_percent_done(job_sets[j]) # None
                  /\ PercentValue(job_sets[j]) \in 0..100
                  /\ job_sets[j].done >= job_sets[j].count[1]
                         => PercentValue(job_sets[j]) = 100)
    /\ [][\A j \in 1..Len(job_sets) :
              (/\ job_sets[j].count # None
               /\ job_sets[j].count[1] > 0
               /\ job_sets'[j].count = job_sets[j].count) =>
                  PercentValue(job_sets'[j]) >= PercentValue(job_sets[j])
         ]_vars

\* The second job of a job set with count 1 was finished
C7_Witness ==
    /\ op.name = "finished_job"
    /\ op.raised = NoError
    /\ job_sets[op.js].count = Some(1)
    /\ job_sets[op.js].done = 2

(* C8 *)

C9_IncrementFrame ==
    [][(op'.name = "increment" /\ job_sets[op'.js].count # None) =>
          /\ op'.raised = NoError
          /\ job_sets' = [job_sets EXCEPT ![op'.js].count = Some(@[1] + 1)]
          /\ stopped' = stopped
          /\ observers' = observers
          /\ log' = <<>>
      ]_vars

\* increment returned normally on a stopped handle
C9_Witness ==
    /\ stopped
    /\ op.name = "increment"
    /\ op.raised = NoError
    /\ job_sets[op.js].count = Some(2)

(* C10 *)

\* C10: increment() on a job set created with count=None raises no error and
\* leaves get_percent_done() none, and InterruptedTaskError is the only error
\* an operation can produce.
C10_IncrementOnNoneIsNoOp ==
    /\ op.raised \in {NoError, InterruptedTaskError}
    /\ (op.name = "increment" /\ job_sets[op.js].count = None) =>
          /\ op.raised = NoError
          /\ get_percent_done(job_sets[op.js]) = None

(* C11 *)

\* C11: create_jobset returns normally in every state, stopped or not; it
\* appends exactly one job set with done = 0, no job_name and the given count
\* to the end of job_sets, leaves the job sets before it as they were, runs
\* the observers after the append (they see the new job set) and returns the
\* new job set.
C11_CreateAlwaysAppends ==
    [][op'.name = "create_jobset" =>
          /\ op'.raised = NoError
          /\ job_sets' = Append(job_sets,
                                [name |-> DefaultJobSetName, count |-> op'.arg,
                                 done |-> 0, job_name |-> None])
          /\ op'.result = Some(Len(job_sets'))
          /\ passes' # <<>>
          /\ \A k \in 1..Len(log') : Len(log'[k].job_sets) = Len(job_sets) + 1
      ]_vars

\* A second job set was created on a stopped handle and an observer saw it
C11_Witness ==
    /\ stopped
    /\ op.name = "create_jobset"
    /\ op.raised = NoError
    /\ Len(job_sets) = 2
    /\ log # <<>>
    /\ log[1].stopped

(* C12 *)

\* C12: job_sets only grows, and only at its end: a create_jobset call appends
\* one job set after the existing ones, every other call keeps the length and
\* the order and changes at most the job set it was called on; get_jobsets()
\* returns that sequence, and current_jobset() returns none when it is empty
\* and its last element otherwise, whichever job set was worked on last.
C12_JobSetsInCreationOrder ==
    /\ [](/\ op.name = "get_jobsets" => op.result = Some(job_sets)
          /\ op.name = "current_jobset" =>
                op.result = Some(IF Len(job_sets) = 0
                                 THEN None
                                 ELSE Some(job_sets[Len(job_sets)])))
    /\ [][IF op'.name = "create_jobset"
          THEN /\ Len(job_sets') = Len(job_sets) + 1
               /\ SubSeq(job_sets', 1, Len(job_sets)) = job_sets
          ELSE /\ Len(job_sets') = Len(job_sets)
               /\ \A j \in 1..Len(job_sets) :
                      /\ job_sets'[j].name = job_sets[j].name
                      /\ j # op'.js => job_sets'[j] = job_sets[j]
         ]_vars

\* current_jobset returned the second job set while the first one, not the
\* second, has a job in progress
C12_Witness ==
    /\ op.name = "current_jobset"
    /\ Len(job_sets) = 2
    /\ job_sets[1].job_name # None
    /\ job_sets[2].job_name = None
    /\ op.result = Some(Some(job_sets[2]))

(* C14 *)

\* C14: in a started_job(name) that returns normally every observer runs with
\* job_name already set to name; in a finished_job() that returns normally
\* every observer runs with done already incremented and job_name still what it
\* was before the call, and job_name is none once the call has returned.
C14_NotificationOrder ==
    [][/\ (op'.name = "started_job" /\ op'.raised = NoError) =>
             /\ passes' # <<>>
             /\ \A k \in 1..Len(log') :
                    log'[k].job_sets[op'.js].job_name = op'.arg
             /\ job_sets'[op'.js].job_name = op'.arg
       /\ (op'.name = "finished_job" /\ op'.raised = NoError) =>
             /\ passes' # <<>>
             /\ \A k \in 1..Len(log') :
                    /\ log'[k].job_sets[op'.js].done = job_sets[op'.js].done + 1
                    /\ log'[k].job_sets[op'.js].job_name = job_sets[op'.js].job_name
             /\ job_sets'[op'.js].done = job_sets[op'.js].done + 1
             /\ job_sets'[op'.js].job_name = None
      ]_vars

\* During a finished_job an observer saw done = 1 with the job still named
\* "a"; after the call the name is gone
C14_Witness ==
    /\ op.name = "finished_job"
    /\ op.raised = NoError
    /\ log # <<>>
    /\ log[1].job_sets[op.js].job_name = Some("a")
    /\ log[1].job_sets[op.js].done = 1
    /\ job_sets[op.js].job_name = None

(* C15 *)

\* C15: a stop() call returns normally and changes no job set and not the
\* sequence job_sets; the observers it had stay registered in their order, and
\* the list is longer afterwards only by what an observer registered while it
\* ran; on a handle with interrupts=False stop() changes nothing and invokes
\* no observer.
C15_StopIsAdvisory ==
    [][op'.name = "stop" =>
          /\ op'.raised = NoError
          /\ job_sets' = job_sets
          /\ Len(observers') >= Len(observers)
          /\ SubSeq(observers', 1, Len(observers)) = observers
          /\ (\A i \in 1..Len(observers) : observers[i] # "adder")
                 => observers' = observers
          /\ ~interrupts =>
                 /\ stopped' = stopped
                 /\ observers' = observers
                 /\ log' = <<>>
                 /\ passes' = <<>>
      ]_vars

\* stop() ran the observers while a job was in progress; the job is still named
C15_Witness ==
    /\ op.name = "stop"
    /\ stopped
    /\ log # <<>>
    /\ Len(job_sets) = 1
    /\ job_sets[1].job_name # None

(* C16 *)

\* C16: done is a non-negative integer; in every step the done of a job set is
\* its done before the step (0 for a job set the step created) plus 1 exactly
\* when the step is a finished_job on that job set that returned normally, so
\* no other call changes it and it never decreases. done may exceed count.
C16_DoneCountsFinishedJobs ==
    /\ [](\A j \in 1..Len(job_sets) : job_sets[j].done \in Nat)
    /\ [][\A j \in 1..Len(job_sets') :
              job_sets'[j].done =
                  (IF j <= Len(job_sets) THEN job_sets[j].done ELSE 0)
                  + (IF op'.name = "finished_job" /\ op'.js = j
                        /\ op'.raised = NoError
                     THEN 1
                     ELSE 0)
         ]_vars

\* A job was finished on a job set whose count is 0: done exceeds count
C16_Witness ==
    /\ op.name = "finished_job"
    /\ op.raised = NoError
    /\ job_sets[op.js].count = Some(0)
    /\ job_sets[op.js].done = 1

(* C17 *)

\* The last call was a started_job or finished_job that returned normally and
\* left the handle stopped: an observer called stop() during its pass
StoppedDuringJobCall ==
    /\ op.name \in {"started_job", "finished_job"}
    /\ op.raised = NoError
    /\ stopped

\* C17: a started_job or finished_job during whose notification pass the
\* handle becomes stopped still returns normally with its effect in place
\* (job_name set; done incremented and job_name cleared), and the next
\* started_job, finished_job or check_status call raises InterruptedTaskError.
C17_ReentrantStop ==
    [][/\ (op'.name \in {"started_job", "finished_job"} /\ ~stopped /\ stopped') =>
             /\ op'.raised = NoError
             /\ op'.name = "started_job" =>
                    job_sets'[op'.js].job_name = op'.arg
             /\ op'.name = "finished_job" =>
                    /\ job_sets'[op'.js].done = job_sets[op'.js].done + 1
                    /\ job_sets'[op'.js].job_name = None
       /\ (StoppedDuringJobCall /\ op'.name \in PollingOps) =>
             op'.raised = InterruptedTaskError
      ]_vars

\* A finished_job returned normally, counted, although an observer stopped the
\* handle during the call
C17_Witness ==
    /\ StoppedDuringJobCall
    /\ op.name = "finished_job"
    /\ job_sets[op.js].done = 1
    /\ job_sets[op.js].job_name = None
    /\ \E k \in 1..Len(log) : observers[log[k].obs] = "stopper" /\ ~log[k].stopped

(* C18 *)

HasPercent(js) == js.count # None /\ js.count[1] > 0

\* C18: for a job set with count > 0, an increment() on it never raises
\* get_percent_done(), and get_percent_done() is lower after a step than before
\* it only when the step is an increment() on that job set.
C18_OnlyIncrementLowersPercent ==
    [][\A j \in 1..Len(job_sets) :
          (HasPercent(job_sets[j]) /\ HasPercent(job_sets'[j])) =>
              /\ (op'.name = "increment" /\ op'.js = j) =>
                     PercentValue(job_sets'[j]) <= PercentValue(job_sets[j])
              /\ PercentValue(job_sets'[j]) < PercentValue(job_sets[j]) =>
                     (op'.name = "increment" /\ op'.js = j)
      ]_vars

\* One job done of one made 100; the increment to count 2 leaves 50
C18_Witness ==
    /\ op.name = "increment"
    /\ op.raised = NoError
    /\ job_sets[op.js].done = 1
    /\ job_sets[op.js].count = Some(2)
    /\ get_percent_done(job_sets[op.js]) = Some(50)

(* C13 *)

\* C13: in every state of a NullTaskHandle and its NullJobSets, whatever calls
\* were made (stop() included), the last call returned without raising; no
\* observer passed to add_observer has been invoked; is_stopped() returned
\* false, get_percent_done() none, current_jobset() none, get_jobsets() an
\* empty list and create_jobset a NullJobSet.
C13_NullIsInert ==
    /\ op.raised = NoError
    /\ log = <<>>
    /\ op.name = "is_stopped" => op.result = Some(FALSE)
    /\ op.name = "get_percent_done" => op.result = Some(None)
    /\ op.name = "current_jobset" => op.result = Some(None)
    /\ op.name = "get_jobsets" => op.result = Some(<<>>)
    /\ op.name = "create_jobset" => op.result = Some("NullJobSet")

\* get_percent_done was called on the second NullJobSet of a null handle that
\* was given two observers
C13_Witness ==
    /\ op.name = "get_percent_done"
    /\ op.js = 2
    /\ op.result = Some(None)
    /\ null_jobsets = 2
    /\ Len(offered) = 2
    /\ log = <<>>

====
